---------------------------- MODULE Spec2Model ----------------------------
(***************************************************************************)
(* A model of src/scraper.py (web_frequencies): fetch one page, count its  *)
(* tags, extract its visible text, tokenise it, rank the words, print the  *)
(* report.                                                                 *)
(*                                                                         *)
(* Strings whose characters the program inspects (text, tokens, tag names, *)
(* the --top argument) are sequences of character codes, so that           *)
(* str.lower, str.strip, the TOKEN_RE scan, int() and html.unescape are    *)
(* computed character by character.  The URL is only handed on, and is a   *)
(* TLA+ string.                                                            *)
(*                                                                         *)
(* A document tree is the pre-order sequence of its nodes, each with its   *)
(* depth below the BeautifulSoup root object (depth 1 = child of the root).*)
(***************************************************************************)
EXTENDS Integers, Sequences, FiniteSets

VARIABLES
    pc,          \* position in main(), or in the single call of a unit run
    argv,        \* the command line handed to main
    args,        \* the argparse Namespace: [url, top]
    html,        \* the document tree as the parser delivered it (never changed)
    soup,        \* the BeautifulSoup object main holds (decompose() changes it)
    tag_counts,  \* result of tag_frequencies
    text,        \* result of visible_text_from_soup
    tokens,      \* result of tokenise
    word_counts, \* result of top_n_words
    stdout,      \* the reports printed
    exit_code,   \* the process exit status, -1 while the process runs
    error,       \* the exception that ended the run, "" if none
    calls        \* the functions called so far, in order

vars == <<pc, argv, args, html, soup, tag_counts, text, tokens, word_counts,
          stdout, exit_code, error, calls>>

(***************************************************************************)
(* Bounds of the model.                                                    *)
(***************************************************************************)
MaxNodes == 3
MaxTextLen == 5
MaxTokens == 4
MaxTop == 3

(***************************************************************************)
(* Characters and strings.                                                 *)
(***************************************************************************)
Min(a, b) == IF a <= b THEN a ELSE b

\* [A-Za-z] of TOKEN_RE
IsAlpha(c) == c \in 65..90 \/ c \in 97..122

\* str.lower() on one ASCII character
lower_char(c) == IF c \in 65..90 THEN c + 32 ELSE c

\* str.lower()
lower(s) == [i \in 1..Len(s) |-> lower_char(s[i])]

\* the white space of str.strip(): \t \n \v \f \r, FS GS RS US, space, and
\* the white space beyond ASCII (NEL, NBSP, U+1680, U+2000..U+200A, U+2028,
\* U+2029, U+202F, U+205F, U+3000)
IsSpace(c) ==
    \/ c \in 9..13
    \/ c \in 28..32
    \/ c \in {133, 160, 5760, 8232, 8233, 8239, 8287, 12288}
    \/ c \in 8192..8202

\* str.strip(): the result is a plain str
strip(s) ==
    LET keep == {i \in 1..Len(s) : ~IsSpace(s[i])} IN
    IF keep = {} THEN <<>>
    ELSE LET a == CHOOSE i \in keep : \A j \in keep : i <= j
             b == CHOOSE i \in keep : \A j \in keep : j <= i
         IN SubSeq(s, a, b)

\* " ".join(pieces)
RECURSIVE join(_)
join(pieces) ==
    IF pieces = <<>> THEN <<>>
    ELSE IF Len(pieces) = 1 THEN pieces[1]
    ELSE pieces[1] \o <<32>> \o join(Tail(pieces))

\* the named character references of html.entities.html5 the model carries:
\* amp; amp lt; lt gt; gt
html5 ==
    [n \in {<<97, 109, 112, 59>>, <<97, 109, 112>>, <<108, 116, 59>>,
            <<108, 116>>, <<103, 116, 59>>, <<103, 116>>} |->
        IF n[1] = 97 THEN <<38>> ELSE IF n[1] = 108 THEN <<60>> ELSE <<62>>]

\* html._replace_charref for a named reference: the whole name, else its
\* longest prefix of two or more characters that is a reference, else unchanged
replace_charref(name) ==
    IF name \in DOMAIN html5 THEN html5[name]
    ELSE LET xs == {x \in 2..(Len(name) - 1) : SubSeq(name, 1, x) \in DOMAIN html5} IN
         IF xs = {} THEN <<38>> \o name
         ELSE LET x == CHOOSE y \in xs : \A z \in xs : z <= y
              IN html5[SubSeq(name, 1, x)] \o SubSeq(name, x + 1, Len(name))

\* a character of a reference name: [^\t\n\f <&#;]
IsRefChar(c) == c \notin {9, 10, 12, 32, 60, 38, 35, 59}

\* end of the greedy run of at most 32 reference-name characters from i (i - 1 if none)
RECURSIVE RefEnd(_, _, _)
RefEnd(s, i, left) ==
    IF left > 0 /\ i <= Len(s) /\ IsRefChar(s[i]) THEN RefEnd(s, i + 1, left - 1)
    ELSE i - 1

\* html.unescape(s) from position i on (named references; the texts of the
\* model hold no numeric reference)
RECURSIVE unescape_from(_, _)
unescape_from(s, i) ==
    IF i > Len(s) THEN <<>>
    ELSE IF s[i] # 38 THEN <<s[i]>> \o unescape_from(s, i + 1)
    ELSE LET e == RefEnd(s, i + 1, 32)
             e2 == IF e < Len(s) /\ s[e + 1] = 59 THEN e + 1 ELSE e
         IN IF e < i + 1 THEN <<38>> \o unescape_from(s, i + 1)
            ELSE replace_charref(SubSeq(s, i + 1, e2)) \o unescape_from(s, e2 + 1)

unescape(s) == unescape_from(s, 1)

\* the characters that stand for the digit 0: ASCII 0 and the zero of every
\* other block of decimal digits; the nine characters after each are 1..9
DECIMAL_ZEROS ==
    {
      48, 1632, 1776, 1984, 2406, 2534, 2662, 2790, 2918, 3046, 3174, 3302,
      3430, 3558, 3664, 3792, 3872, 4160, 4240, 6112, 6160, 6470, 6608,
      6784, 6800, 6992, 7088, 7232, 7248, 42528, 43216, 43264, 43472,
      43504, 43600, 44016, 65296, 66720, 68912, 69734, 69872, 69942, 70096,
      70384, 70736, 70864, 71248, 71360, 71472, 71904, 72016, 72784, 73040,
      73120, 92768, 92864, 93008, 120782, 120792, 120802, 120812, 120822,
      123200, 123632, 125264, 130032 }

\* whether c is a decimal digit
IsDecimal(c) == \E z \in DECIMAL_ZEROS : c \in z..(z + 9)

\* the digit a decimal character stands for
decimal_value(c) == c - (CHOOSE z \in DECIMAL_ZEROS : c \in z..(z + 9))

\* the value of a sequence of decimal characters
RECURSIVE digits_value(_)
digits_value(d) ==
    IF d = <<>> THEN 0
    ELSE 10 * digits_value(SubSeq(d, 1, Len(d) - 1)) + decimal_value(d[Len(d)])

\* the white space int() skips around a literal: \t \n \v \f \r and space of
\* ASCII (FS GS RS US are none of it), and the white space beyond ASCII
IsIntSpace(c) ==
    \/ c \in 9..13
    \/ c = 32
    \/ (c > 127 /\ IsSpace(c))

\* the literal int() reads: s without the white space int() skips at its ends
int_strip(s) ==
    LET keep == {i \in 1..Len(s) : ~IsIntSpace(s[i])} IN
    IF keep = {} THEN <<>>
    ELSE LET a == CHOOSE i \in keep : \A j \in keep : i <= j
             b == CHOOSE i \in keep : \A j \in keep : j <= i
         IN SubSeq(s, a, b)

\* a sequence of decimal characters without its leading zeros, which add
\* nothing to its value
significant(d) ==
    LET nz == {i \in 1..Len(d) : decimal_value(d[i]) # 0} IN
    IF nz = {} THEN <<>>
    ELSE SubSeq(d, CHOOSE i \in nz : \A j \in nz : i <= j, Len(d))

\* the most digits int() converts (sys.int_max_str_digits as the interpreter
\* starts): a longer literal raises ValueError
MAX_STR_DIGITS == 4300

\* int(s) of argparse's type=int: white space around the literal is dropped,
\* then come an optional sign and decimal digits, between two of which a
\* single underscore may stand; the digits are at most MAX_STR_DIGITS.
\* The result is [ok |-> whether s is an integer literal, value |-> the integer].
int(s) ==
    LET t == int_strip(s)
        signed == Len(t) > 0 /\ t[1] \in {43, 45}
        d == IF signed THEN Tail(t) ELSE t
        wellformed ==
            /\ d # <<>>
            /\ \A i \in 1..Len(d) : IsDecimal(d[i]) \/ d[i] = 95
            /\ IsDecimal(d[1]) /\ IsDecimal(d[Len(d)])
            /\ \A i \in 1..(Len(d) - 1) : ~(d[i] = 95 /\ d[i + 1] = 95)
        digits == SelectSeq(d, IsDecimal)
        magnitude == digits_value(significant(digits))
    IN IF wellformed /\ Len(digits) <= MAX_STR_DIGITS
       THEN [ok |-> TRUE,
             value |-> IF t[1] = 45 THEN 0 - magnitude ELSE magnitude]
       ELSE [ok |-> FALSE, value |-> 0]

(***************************************************************************)
(* Tokenizer.                                                              *)
(***************************************************************************)
\* the stop-word set of the configuration
STOP_WORDS ==
    { <<97>>, <<97, 110>>, <<97, 110, 100>>,                           \* a an and
      <<97, 114, 101>>, <<97, 115>>, <<97, 116>>,                      \* are as at
      <<98, 101>>, <<98, 121>>, <<102, 111, 114>>,                     \* be by for
      <<102, 114, 111, 109>>, <<104, 97, 115>>, <<104, 101>>,          \* from has he
      <<105, 110>>, <<105, 115>>, <<105, 116>>,                        \* in is it
      <<105, 116, 115>>, <<111, 102>>, <<111, 110>>,                   \* its of on
      <<116, 104, 97, 116>>, <<116, 104, 101>>, <<116, 111>>,          \* that the to
      <<119, 97, 115>>, <<119, 101, 114, 101>>, <<119, 105, 116, 104>> \* was were with
    }

\* end of the greedy run of letters that starts at i
RECURSIVE RunEnd(_, _)
RunEnd(s, i) ==
    IF i < Len(s) /\ IsAlpha(s[i + 1]) THEN RunEnd(s, i + 1) ELSE i

\* TOKEN_RE.finditer(s) from position pos on: the <<start, end>> of each
\* non-overlapping match of [A-Za-z]{2,}, leftmost first, each as long as it can be
RECURSIVE finditer(_, _)
finditer(s, pos) ==
    IF pos + 1 > Len(s) THEN <<>>
    ELSE IF IsAlpha(s[pos]) /\ IsAlpha(s[pos + 1])
         THEN LET e == RunEnd(s, pos + 1)
              IN <<(<<pos, e>>)>> \o finditer(s, e + 1)
         ELSE finditer(s, pos + 1)

\* the stop-word test applied to the match as written, before lower-casing
tokenise_filter_first(t) ==
    LET ms == finditer(t, 1)
        raw == [k \in 1..Len(ms) |-> SubSeq(t, ms[k][1], ms[k][2])]
        kept == SelectSeq(raw, LAMBDA tok : tok \notin STOP_WORDS)
    IN [k \in 1..Len(kept) |-> lower(kept[k])]

tokenise(t) ==
    LET ms == finditer(t, 1)
        toks == [k \in 1..Len(ms) |-> lower(SubSeq(t, ms[k][1], ms[k][2]))]
    IN SelectSeq(toks, LAMBDA tok : tok \notin STOP_WORDS)

(***************************************************************************)
(* Frequency aggregation: collections.Counter and Counter.most_common.     *)
(* A Counter is the sequence of its <<key, count>> items in insertion      *)
(* order, which is the order in which the keys were first seen.            *)
(***************************************************************************)
\* a Counter update that leaves the count of a key already seen as it is
Counter_add_once(c, k) ==
    IF \E i \in 1..Len(c) : c[i][1] = k THEN c ELSE Append(c, <<k, 1>>)

\* one step of Counter.update: self[k] = self.get(k, 0) + 1
Counter_add(c, k) ==
    IF \E i \in 1..Len(c) : c[i][1] = k
    THEN [i \in 1..Len(c) |-> IF c[i][1] = k THEN <<k, c[i][2] + 1>> ELSE c[i]]
    ELSE Append(c, <<k, 1>>)

\* Counter(keys): one scan of keys, left to right
RECURSIVE Counter(_)
Counter(keys) ==
    IF keys = <<>> THEN <<>>
    ELSE Counter_add(Counter(SubSeq(keys, 1, Len(keys) - 1)), keys[Len(keys)])

\* an insertion that puts an item before the items of equal count
insert_before_equal(sorted, item) ==
    LET n == Cardinality({i \in 1..Len(sorted) : sorted[i][2] > item[2]})
    IN SubSeq(sorted, 1, n) \o <<item>> \o SubSeq(sorted, n + 1, Len(sorted))

\* a stable insertion into a sequence sorted by count, largest first: the
\* item goes after every item whose count is at least its own
insert_stable(sorted, item) ==
    LET n == Cardinality({i \in 1..Len(sorted) : sorted[i][2] >= item[2]})
    IN SubSeq(sorted, 1, n) \o <<item>> \o SubSeq(sorted, n + 1, Len(sorted))

\* sorted(items, key=itemgetter(1), reverse=True): stable, so items of equal
\* count keep the order they have in items
RECURSIVE sorted_reverse(_)
sorted_reverse(items) ==
    IF items = <<>> THEN <<>>
    ELSE insert_stable(sorted_reverse(SubSeq(items, 1, Len(items) - 1)), items[Len(items)])

\* s[:n] for n >= 0
slice_to(s, n) == SubSeq(s, 1, Min(n, Len(s)))

\* the entries <<count, order, item>> of heapq.nlargest compare as tuples
entry_less(a, b) == a[1] < b[1] \/ (a[1] = b[1] /\ a[2] < b[2])

\* the smallest entry of a heap (result[0])
heap_min(h) == CHOOSE a \in h : \A b \in h : a = b \/ entry_less(a, b)

\* the loop of heapq.nlargest over the items after the first n: an item whose
\* count is above the smallest count kept replaces the smallest entry
RECURSIVE nlargest_scan(_, _, _, _)
nlargest_scan(h, items, i, order) ==
    IF i > Len(items) THEN h
    ELSE IF heap_min(h)[1] < items[i][2]
         THEN nlargest_scan((h \ {heap_min(h)}) \cup {<<items[i][2], order, items[i]>>},
                            items, i + 1, order - 1)
         ELSE nlargest_scan(h, items, i + 1, order)

\* result.sort(reverse=True) of the heap entries, then the items alone
RECURSIVE heap_sorted_reverse(_)
heap_sorted_reverse(h) ==
    IF h = {} THEN <<>>
    ELSE LET m == heap_min(h) IN Append(heap_sorted_reverse(h \ {m}), m[3])

\* max(items, key=itemgetter(1)): the first item of the largest count
max_item(items) ==
    LET i == CHOOSE j \in 1..Len(items) :
                 /\ \A k \in 1..Len(items) : items[k][2] <= items[j][2]
                 /\ \A k \in 1..(j - 1) : items[k][2] < items[j][2]
    IN items[i]

\* heapq.nlargest(n, items, key=itemgetter(1))
nlargest(n, items) ==
    IF n = 1 THEN (IF items = <<>> THEN <<>> ELSE <<max_item(items)>>)
    ELSE IF n >= Len(items) THEN slice_to(sorted_reverse(items), n)
    ELSE IF n <= 0 THEN <<>>
    ELSE LET first == {<<items[i][2], 1 - i, items[i]>> : i \in 1..n}
         IN heap_sorted_reverse(nlargest_scan(first, items, n + 1, 0 - n))

\* Counter.most_common() with n = None
most_common_all(c) == sorted_reverse(c)

\* Counter.most_common(n) with an integer n
most_common(c, n) == nlargest(n, c)

\* a top-N that keeps one entry fewer than asked for
top_n_words_short(toks, n) == most_common(Counter(toks), n - 1)

top_n_words(toks, n) == most_common(Counter(toks), n)

(***************************************************************************)
(* The document tree.  A node is                                           *)
(*   [kind |-> "Tag", name |-> the tag name, string |-> <<>>, depth |-> d] *)
(* or, with kind "NavigableString" or "Comment",                           *)
(*   [kind, name |-> <<>>, string |-> its characters, depth |-> d].        *)
(***************************************************************************)
\* the tag names visible_text_from_soup removes: script style noscript template
NON_VISIBLE ==
    { <<115, 99, 114, 105, 112, 116>>, <<115, 116, 121, 108, 101>>,
      <<110, 111, 115, 99, 114, 105, 112, 116>>,
      <<116, 101, 109, 112, 108, 97, 116, 101>> }

\* the nodes of the subtree rooted at node j: j and the nodes after it that lie deeper
Subtree(t, j) ==
    {j} \cup {k \in (j + 1)..Len(t) : \A m \in (j + 1)..k : t[m].depth > t[j].depth}

\* the ancestors of node i
Ancestors(t, i) == {j \in 1..(i - 1) : i \in Subtree(t, j)}

\* the positions 1..n as a sequence
Positions(n) == [i \in 1..n |-> i]

\* soup.find_all(True): every Tag below the root, in document order
find_all_True(t) ==
    SelectSeq(Positions(Len(t)), LAMBDA i : t[i].kind = "Tag")

\* soup([...names...]): every Tag whose name is one of names, in document order
find_all(t, names) ==
    SelectSeq(Positions(Len(t)), LAMBDA i : t[i].kind = "Tag" /\ t[i].name \in names)

\* tag.decompose(): the tag and everything below it leave the tree
decompose(removed, t, j) == removed \cup Subtree(t, j)

\* for tag in found: tag.decompose()
RECURSIVE decompose_each(_, _, _)
decompose_each(removed, t, found) ==
    IF found = <<>> THEN removed
    ELSE decompose_each(decompose(removed, t, found[1]), t, Tail(found))

\* the tree without the removed nodes
Remaining(t, removed) ==
    LET left == SelectSeq(Positions(Len(t)), LAMBDA i : i \notin removed)
    IN [k \in 1..Len(left) |-> t[left[k]]]

\* soup.stripped_strings: Tag._all_strings(strip=True) passes the descendants
\* whose type is NavigableString (not Comment), strips each with str.strip(),
\* drops the empty ones and yields the stripped value, which is a plain str
stripped_strings(t) ==
    LET strs == SelectSeq(Positions(Len(t)),
                          LAMBDA i : t[i].kind = "NavigableString" /\ strip(t[i].string) # <<>>)
    IN [k \in 1..Len(strs) |-> [cls |-> "str", value |-> strip(t[strs[k]].string)]]

\* isinstance(element, NavigableString): NavigableString and its subclasses
isinstance_NavigableString(element) == element.cls \in {"NavigableString", "Comment"}

\* isinstance(element, Tag)
isinstance_Tag(element) == element.cls = "Tag"

\* gen(): the elements of stripped_strings that pass the isinstance test, unescaped
gen(t) ==
    LET passed == SelectSeq(stripped_strings(t),
                            LAMBDA el : isinstance_NavigableString(el) /\ ~isinstance_Tag(el))
    IN [k \in 1..Len(passed) |-> unescape(passed[k].value)]

\* visible_text_from_soup(soup): the tree it leaves behind and the string it returns
visible_text_from_soup(t) ==
    LET removed == decompose_each({}, t, find_all(t, NON_VISIBLE))
        left == Remaining(t, removed)
    IN [soup |-> left, text |-> join(gen(left))]

\* tag counts taken from the tree that visible_text_from_soup leaves behind
tag_frequencies_filtered(t) ==
    LET left == visible_text_from_soup(t).soup
        found == find_all_True(left)
    IN most_common_all(Counter([k \in 1..Len(found) |-> lower(left[found[k]].name)]))

\* tag_frequencies(soup)
tag_frequencies(t) ==
    LET found == find_all_True(t)
    IN most_common_all(Counter([k \in 1..Len(found) |-> lower(t[found[k]].name)]))

\* render_report(url, word_counts, tag_counts): the lines of the report by
\* section (the title, one row per tag, the "Top N words:" header, one ranked
\* row per word), without the column padding
render_report(url, wcs, tcs) ==
    [title |-> url,
     tag_rows |-> tcs,
     top |-> Len(wcs),
     word_rows |-> [i \in 1..Len(wcs) |-> <<i, wcs[i][1], wcs[i][2]>>]]

(***************************************************************************)
(* Inputs.                                                                 *)
(***************************************************************************)
\* tag names of the pages: the four non-visible names and p
TagNameInputs == NON_VISIBLE \cup { <<112>> }

\* text of the pages: " Hi ", "  " (white space only), "a&lt;b"
StringInputs == { <<32, 72, 105, 32>>, <<32, 32>>, <<97, 38, 108, 116, 59, 98>> }

\* a comment of the pages: " c "
CommentInputs == { <<32, 99, 32>> }

NodeInputs ==
    [kind : {"Tag"}, name : TagNameInputs, string : {<<>>}, depth : 1..MaxNodes]
    \cup [kind : {"NavigableString"}, name : {<<>>}, string : StringInputs, depth : 1..MaxNodes]
    \cup [kind : {"Comment"}, name : {<<>>}, string : CommentInputs, depth : 1..MaxNodes]

\* the tag names whose content the parser reads as raw text: script style
RAW_TEXT == { <<115, 99, 114, 105, 112, 116>>, <<115, 116, 121, 108, 101>> }

\* a pre-order node sequence is a tree the parser can deliver when the first
\* node is a child of the root, only a Tag has children, no two strings are
\* adjacent siblings (the parser joins them into one), and a script or style
\* element holds nothing but a string
IsTree(t) ==
    /\ Len(t) > 0 => t[1].depth = 1
    /\ \A i \in 2..Len(t) :
          /\ t[i].depth <= t[i - 1].depth + (IF t[i - 1].kind = "Tag" THEN 1 ELSE 0)
          /\ ~(t[i].kind = "NavigableString" /\ t[i - 1].kind = "NavigableString"
               /\ t[i].depth = t[i - 1].depth)
          /\ \A j \in 1..(i - 1) :
                (t[j].depth = t[i].depth - 1 /\ t[j].name \in RAW_TEXT
                 /\ \A m \in (j + 1)..(i - 1) : t[m].depth >= t[i].depth)
                    => t[i].kind = "NavigableString"

\* the parsed pages of exactly n nodes
TreesOfLen(n) == {t \in [1..n -> NodeInputs] : IsTree(t)}

\* the characters of the texts handed to tokenise alone: A n t 1 . space
Alphabet == {65, 110, 116, 49, 46, 32}

TextInputs == UNION {[1..n -> Alphabet] : n \in 0..MaxTextLen}

\* the words handed to top_n_words alone: cat sat ran dog
WordInputs == { <<99, 97, 116>>, <<115, 97, 116>>, <<114, 97, 110>>, <<100, 111, 103>> }

TokenInputs == UNION {[1..n -> WordInputs] : n \in 0..MaxTokens}

\* the values of --top on the command line: "-1" "0" " 1_0" "-1_0" "x", and
\* "-" before one digit 1 more than int() converts
TopInputs ==
    { <<45, 49>>, <<48>>, <<32, 49, 95, 48>>, <<45, 49, 95, 48>>, <<120>>,
      <<45>> \o [i \in 1..(MAX_STR_DIGITS + 1) |-> 49] }

\* the URLs on the command line; requests accepts the first and raises
\* MissingSchema, a RequestException, for the second
UrlInputs == {"http://example.com", "not-a-url"}

HasSchema(url) == url = "http://example.com"

\* a command line: the positional arguments (none, or one) and the values
\* given to --top (none, or one)
ArgvInputs ==
    [url : {<<>>} \cup {<<u>> : u \in UrlInputs},
     top : {<<>>} \cup {<<v>> : v \in TopInputs}]

\* what requests.get and raise_for_status raise for a URL that has a schema
FetchErrors == {"ConnectionError", "Timeout", "HTTPError", "UnicodeDecodeError"}

\* the default of --top
DefaultTop == 100

NoArgs == [url |-> "", top |-> 0]

NoReport == <<>>

(***************************************************************************)
(* main(argv), one action per statement.                                   *)
(***************************************************************************)
Init ==
    /\ pc = "parse_args"
    /\ argv \in ArgvInputs
    /\ args = NoArgs
    /\ html = <<>>
    /\ soup = <<>>
    /\ tag_counts = <<>>
    /\ text = <<>>
    /\ tokens = <<>>
    /\ word_counts = <<>>
    /\ stdout = NoReport
    /\ exit_code = -1
    /\ error = ""
    /\ calls = <<>>

\* the option strings of the parser: -h --help -t --top
option_string_actions ==
    { <<45, 104>>, <<45, 45, 104, 101, 108, 112>>,
      <<45, 116>>, <<45, 45, 116, 111, 112>> }

\* s.startswith(p)
startswith(s, p) == Len(p) <= Len(s) /\ SubSeq(s, 1, Len(p)) = p

\* "=" in s
has_equals(s) == \E i \in 1..Len(s) : s[i] = 61

\* s.split("=", 1)[0]: s up to its first "=", the whole of s if it has none
before_equals(s) ==
    IF has_equals(s)
    THEN LET k == CHOOSE i \in 1..Len(s) : s[i] = 61 /\ \A j \in 1..(i - 1) : s[j] # 61
         IN SubSeq(s, 1, k - 1)
    ELSE s

\* argparse's test for a negative number, ^-\d+$|^-\d*\.\d+$: a minus sign,
\* then decimal digits, or decimal digits (maybe none), a point and one or
\* more decimal digits; at most one line feed may follow
negative_number(v) ==
    LET w == IF Len(v) > 0 /\ v[Len(v)] = 10 THEN SubSeq(v, 1, Len(v) - 1) ELSE v
    IN /\ Len(w) >= 2
       /\ w[1] = 45
       /\ \/ \A i \in 2..Len(w) : IsDecimal(w[i])
          \/ \E k \in 2..(Len(w) - 1) :
                /\ w[k] = 46
                /\ \A i \in 2..(k - 1) : IsDecimal(w[i])
                /\ \A i \in (k + 1)..Len(w) : IsDecimal(w[i])

\* argparse's _get_option_tuples(v), for v of two or more characters that
\* starts with "-": the option strings v may stand for.  After "--", those
\* that start with v up to its "="; after a single "-", the one that is the
\* first two characters of v and those that start with v
get_option_tuples(v) ==
    IF v[2] = 45
    THEN {o \in option_string_actions : startswith(o, before_equals(v))}
    ELSE {o \in option_string_actions : o = SubSeq(v, 1, 2) \/ startswith(o, v)}

\* argparse's _parse_optional(v): "positional" where it returns None,
\* "optional" where it returns an option tuple or exits on an ambiguous one
parse_optional(v) ==
    IF v = <<>> THEN "positional"
    ELSE IF v[1] # 45 THEN "positional"
    ELSE IF v \in option_string_actions THEN "optional"
    ELSE IF Len(v) = 1 THEN "positional"
    ELSE IF has_equals(v) /\ before_equals(v) \in option_string_actions THEN "optional"
    ELSE IF get_option_tuples(v) # {} THEN "optional"
    ELSE IF negative_number(v) THEN "positional"
    ELSE IF \E i \in 1..Len(v) : v[i] = 32 THEN "positional"
    ELSE "optional"

\* whether argparse hands the string after --top to the option as its value:
\* it does so with the strings it reads as positional, and exits with
\* "expected one argument" on the others
takes_value(v) == parse_optional(v) = "positional"

\* parse_args(argv): what argparse does with the command line: it exits with
\* status 2 when the url is missing, when --top is given no value, or when
\* its value is no integer, and returns the Namespace otherwise.  The result is
\* [exit |-> the status argparse exits with, -1 if it returns, args |-> the Namespace]
parse_args(av) ==
    IF av.url = <<>> THEN [exit |-> 2, args |-> NoArgs]
    ELSE IF av.top = <<>> THEN [exit |-> -1, args |-> [url |-> av.url[1], top |-> DefaultTop]]
    ELSE IF ~takes_value(av.top[1]) THEN [exit |-> 2, args |-> NoArgs]
    ELSE IF ~int(av.top[1]).ok THEN [exit |-> 2, args |-> NoArgs]
    ELSE [exit |-> -1, args |-> [url |-> av.url[1], top |-> int(av.top[1]).value]]

\* args = parse_args(argv)
ParseArgs ==
    /\ pc = "parse_args"
    /\ LET r == parse_args(argv) IN
          /\ args' = r.args
          /\ exit_code' = r.exit
          /\ pc' = IF r.exit = -1 THEN "fetch_html" ELSE "exited"
          /\ error' = IF r.exit = 2 THEN "ArgumentError" ELSE ""
    /\ calls' = Append(calls, "parse_args")
    /\ UNCHANGED <<argv, html, soup, tag_counts, text, tokens, word_counts, stdout>>

\* an except clause that logs the error and returns
fetch_html_except_no_exit(exc) == [pc |-> "BeautifulSoup", exit |-> -1]

\* the except clause of fetch_html: logging.error, then sys.exit(1)
fetch_html_except(exc) == [pc |-> "exited", exit |-> 1]

\* html = fetch_html(args.url), the request fails
FetchHtmlFails ==
    /\ pc = "fetch_html"
    /\ \E exc \in FetchErrors \cup {"MissingSchema"} :
          /\ (exc = "MissingSchema") = ~HasSchema(args.url)
          /\ error' = exc
          /\ pc' = fetch_html_except(exc).pc
          /\ exit_code' = fetch_html_except(exc).exit
    /\ calls' = Append(calls, "fetch_html")
    /\ UNCHANGED <<argv, args, html, soup, tag_counts, text, tokens, word_counts, stdout>>

\* html = fetch_html(args.url), the request succeeds: response.text is a page
FetchHtmlReturns ==
    /\ pc = "fetch_html"
    /\ HasSchema(args.url)
    /\ \E n \in 0..MaxNodes : \E page \in TreesOfLen(n) : html' = page
    /\ pc' = "BeautifulSoup"
    /\ calls' = Append(calls, "fetch_html")
    /\ UNCHANGED <<argv, args, soup, tag_counts, text, tokens, word_counts, stdout,
                   exit_code, error>>

\* soup = BeautifulSoup(html, "lxml")
MakeSoup ==
    /\ pc = "BeautifulSoup"
    /\ soup' = html
    /\ pc' = "tag_frequencies"
    /\ calls' = Append(calls, "BeautifulSoup")
    /\ UNCHANGED <<argv, args, html, tag_counts, text, tokens, word_counts, stdout,
                   exit_code, error>>

\* soup = BeautifulSoup(html, "lxml") raises (the parser rejects the markup, or
\* lxml is missing): nothing in main catches it, the interpreter exits with 1
MakeSoupRaises ==
    /\ pc = "BeautifulSoup"
    /\ error' = "ParserRejectedMarkup"
    /\ pc' = "exited"
    /\ exit_code' = 1
    /\ calls' = Append(calls, "BeautifulSoup")
    /\ UNCHANGED <<argv, args, html, soup, tag_counts, text, tokens, word_counts, stdout>>

\* tag_counts = tag_frequencies(soup)
TagFrequencies ==
    /\ pc = "tag_frequencies"
    /\ tag_counts' = tag_frequencies(soup)
    /\ pc' = "visible_text_from_soup"
    /\ calls' = Append(calls, "tag_frequencies")
    /\ UNCHANGED <<argv, args, html, soup, text, tokens, word_counts, stdout,
                   exit_code, error>>

\* text = visible_text_from_soup(soup)
VisibleText ==
    /\ pc = "visible_text_from_soup"
    /\ soup' = visible_text_from_soup(soup).soup
    /\ text' = visible_text_from_soup(soup).text
    /\ pc' = "tokenise"
    /\ calls' = Append(calls, "visible_text_from_soup")
    /\ UNCHANGED <<argv, args, html, tag_counts, tokens, word_counts, stdout,
                   exit_code, error>>

\* tokens = tokenise(text)
Tokenise ==
    /\ pc = "tokenise"
    /\ tokens' = tokenise(text)
    /\ pc' = "top_n_words"
    /\ calls' = Append(calls, "tokenise")
    /\ UNCHANGED <<argv, args, html, soup, tag_counts, text, word_counts, stdout,
                   exit_code, error>>

\* word_counts = top_n_words(tokens, args.top)
TopNWords ==
    /\ pc = "top_n_words"
    /\ word_counts' = top_n_words(tokens, args.top)
    /\ pc' = "render_report"
    /\ calls' = Append(calls, "top_n_words")
    /\ UNCHANGED <<argv, args, html, soup, tag_counts, text, tokens, stdout,
                   exit_code, error>>

\* report = render_report(...); print(report); main returns and the process ends
PrintReport ==
    /\ pc = "render_report"
    /\ stdout' = Append(stdout, render_report(args.url, word_counts, tag_counts))
    /\ pc' = "exited"
    /\ exit_code' = 0
    /\ calls' = Append(calls, "render_report")
    /\ UNCHANGED <<argv, args, html, soup, tag_counts, text, tokens, word_counts, error>>

Next ==
    \/ ParseArgs
    \/ FetchHtmlFails
    \/ FetchHtmlReturns
    \/ MakeSoup
    \/ MakeSoupRaises
    \/ TagFrequencies
    \/ VisibleText
    \/ Tokenise
    \/ TopNWords
    \/ PrintReport

Spec == Init /\ [][Next]_vars

(***************************************************************************)
(* The functions called alone, each on every input within the bounds.      *)
(***************************************************************************)
InitUnit ==
    /\ \/ /\ pc = "unit_tokenise"
          /\ text \in TextInputs
          /\ tokens = <<>>
          /\ args = NoArgs
          /\ soup = <<>>
       \/ /\ pc = "unit_top_n_words"
          /\ text = <<>>
          /\ tokens \in TokenInputs
          /\ args \in [url : {""}, top : (0 - 1)..MaxTop]
          /\ soup = <<>>
       \/ /\ pc = "unit_tag_frequencies"
          /\ text = <<>>
          /\ tokens = <<>>
          /\ args = NoArgs
          /\ \E n \in 0..MaxNodes : soup \in TreesOfLen(n)
    /\ argv = [url |-> <<>>, top |-> <<>>]
    /\ html = soup
    /\ tag_counts = <<>>
    /\ word_counts = <<>>
    /\ stdout = NoReport
    /\ exit_code = -1
    /\ error = ""
    /\ calls = <<>>

\* tokenise(text)
UnitTokenise ==
    /\ pc = "unit_tokenise"
    /\ tokens' = tokenise(text)
    /\ pc' = "returned"
    /\ calls' = Append(calls, "tokenise")
    /\ UNCHANGED <<argv, args, html, soup, tag_counts, text, word_counts, stdout,
                   exit_code, error>>

\* top_n_words(tokens, n)
UnitTopNWords ==
    /\ pc = "unit_top_n_words"
    /\ word_counts' = top_n_words(tokens, args.top)
    /\ pc' = "returned"
    /\ calls' = Append(calls, "top_n_words")
    /\ UNCHANGED <<argv, args, html, soup, tag_counts, text, tokens, stdout,
                   exit_code, error>>

\* tag_frequencies(soup)
UnitTagFrequencies ==
    /\ pc = "unit_tag_frequencies"
    /\ tag_counts' = tag_frequencies(soup)
    /\ pc' = "returned"
    /\ calls' = Append(calls, "tag_frequencies")
    /\ UNCHANGED <<argv, args, html, soup, text, tokens, word_counts, stdout,
                   exit_code, error>>

NextUnit ==
    \/ UnitTokenise
    \/ UnitTopNWords
    \/ UnitTagFrequencies

SpecUnit == InitUnit /\ [][NextUnit]_vars

(***************************************************************************)
(* What the claims speak of, stated without the program's algorithms.      *)
(***************************************************************************)
\* main has called visible_text_from_soup and it has returned
AfterVisibleText ==
    \E i \in 1..Len(calls) : calls[i] = "visible_text_from_soup"

\* main has called tag_frequencies and it has returned
AfterTagFrequencies ==
    \E i \in 1..Len(calls) : calls[i] = "tag_frequencies"

\* the elements of a tree
Elements(t) == {i \in 1..Len(t) : t[i].kind = "Tag"}

\* the elements of a tree whose lower-cased name is nm
ElementsNamed(t, nm) == {i \in Elements(t) : lower(t[i].name) = nm}

\* node i is a non-visible element
IsNonVisible(t, i) == t[i].kind = "Tag" /\ t[i].name \in NON_VISIBLE

\* node i lies inside a non-visible element, at any depth
Hidden(t, i) == \E j \in Ancestors(t, i) : IsNonVisible(t, j)

\* the sum of the counts of a ranked list
RECURSIVE SumCounts(_)
SumCounts(rl) == IF rl = <<>> THEN 0 ELSE rl[1][2] + SumCounts(Tail(rl))

\* how often key k occurs in keys
Occurrences(keys, k) == Cardinality({i \in 1..Len(keys) : keys[i] = k})

\* the distinct keys of a key sequence
Distinct(keys) == {keys[i] : i \in 1..Len(keys)}

\* the position at which key k is first seen
FirstIndex(keys, k) == CHOOSE i \in 1..Len(keys) : keys[i] = k /\ \A j \in 1..(i - 1) : keys[j] # k

\* key a stands before key b in the full ranking of keys
RanksBefore(keys, a, b) ==
    \/ Occurrences(keys, a) > Occurrences(keys, b)
    \/ /\ Occurrences(keys, a) = Occurrences(keys, b)
       /\ FirstIndex(keys, a) < FirstIndex(keys, b)

\* rl lists distinct keys of keys with their counts, in ranking order, and
\* every key it leaves out ranks after every key it lists
IsRankedPrefix(rl, keys) ==
    /\ \A i \in 1..Len(rl) : rl[i][1] \in Distinct(keys) /\ rl[i][2] = Occurrences(keys, rl[i][1])
    /\ \A i, j \in 1..Len(rl) : i < j => RanksBefore(keys, rl[i][1], rl[j][1])
    /\ \A k \in Distinct(keys) \ {rl[i][1] : i \in 1..Len(rl)} :
          \A i \in 1..Len(rl) : RanksBefore(keys, rl[i][1], k)

\* the lower-cased names of the elements of a tree, in document order
ElementNames(t) ==
    LET es == SelectSeq(Positions(Len(t)), LAMBDA i : i \in Elements(t))
    IN [k \in 1..Len(es) |-> lower(t[es[k]].name)]

\* s holds sub as a run of consecutive characters
Contains(s, sub) ==
    \E a \in 0..(Len(s) - Len(sub)) : SubSeq(s, a + 1, a + Len(sub)) = sub

\* the maximal runs of letters of s that are two or more long, as <<first, last>>
LetterRuns(s) ==
    {r \in (1..Len(s)) \X (1..Len(s)) :
        /\ r[1] < r[2]
        /\ \A i \in r[1]..r[2] : IsAlpha(s[i])
        /\ r[1] = 1 \/ ~IsAlpha(s[r[1] - 1])
        /\ r[2] = Len(s) \/ ~IsAlpha(s[r[2] + 1])}

\* the runs of LetterRuns(s) that are no stop-word once lower-cased
KeptRuns(s) == {r \in LetterRuns(s) : lower(SubSeq(s, r[1], r[2])) \notin STOP_WORDS}

(***************************************************************************)
(* The claims.                                                             *)
(***************************************************************************)
\* the tag counts main reports: those it printed, or those it holds
ReportedTagCounts == IF stdout # <<>> THEN stdout[1].tag_rows ELSE tag_counts

\* C1: the tag counts main reports are taken over the tree as parsed: every
\* lower-cased tag name of the parsed tree is listed once, with the number of
\* elements of that name in the parsed tree (those inside script, style,
\* noscript and template included), and the counts add up to the number of
\* elements of the parsed tree, whatever visible_text_from_soup removes later
C1_TagCountsOverUnfilteredTree ==
    AfterTagFrequencies =>
        LET rl == ReportedTagCounts IN
        /\ \A i \in Elements(html) : \E k \in 1..Len(rl) : rl[k][1] = lower(html[i].name)
        /\ \A k \in 1..Len(rl) : rl[k][2] = Cardinality(ElementsNamed(html, rl[k][1]))
        /\ \A k, m \in 1..Len(rl) : rl[k][1] = rl[m][1] => k = m
        /\ SumCounts(rl) = Cardinality(Elements(html))

\* a run of main that printed its report for a page with an element nested
\* in a non-visible element, after the filtering took nodes out of the tree
C1_Witness ==
    /\ pc = "exited"
    /\ stdout # <<>>
    /\ \E i \in Elements(html) : Hidden(html, i)
    /\ Len(soup) < Len(html)

\* C2: the string visible_text_from_soup returns holds no piece of a Text
\* node inside a script, style, noscript or template element (a piece it
\* holds is a piece of the text outside them) and holds every non-empty
\* trimmed (and entity-decoded) piece of a Text node outside them
C2_VisibleTextComplete ==
    AfterVisibleText =>
        LET shown == {i \in 1..Len(html) :
                         /\ html[i].kind = "NavigableString"
                         /\ strip(html[i].string) # <<>>
                         /\ ~Hidden(html, i)}
            hidden == {i \in 1..Len(html) :
                         /\ html[i].kind = "NavigableString"
                         /\ strip(html[i].string) # <<>>
                         /\ Hidden(html, i)}
            inorder == SelectSeq(Positions(Len(html)), LAMBDA i : i \in shown)
            pieces == [k \in 1..Len(inorder) |-> unescape(strip(html[inorder[k]].string))]
        IN /\ \A i \in shown : Contains(text, unescape(strip(html[i].string)))
           /\ \A i \in hidden :
                 Contains(text, unescape(strip(html[i].string)))
                     => Contains(join(pieces), unescape(strip(html[i].string)))

\* C3: visible_text_from_soup does not change the caller's tree: after the
\* call the tree is the tree it was before the call
C3_TreeUnchanged ==
    AfterVisibleText => soup = html

\* C4: tokenise returns the lower-cased maximal runs of two or more ASCII
\* letters that are no stop-word, in left-to-right order and with repeats; no
\* token is shorter than 2, holds anything but lower-case letters, or is a
\* stop-word
C4_TokeniseMaximalRuns ==
    (pc = "returned" /\ calls = <<"tokenise">>) =>
        /\ Len(tokens) = Cardinality(KeptRuns(text))
        /\ \A r \in KeptRuns(text) :
              tokens[Cardinality({q \in KeptRuns(text) : q[1] <= r[1]})]
                  = lower(SubSeq(text, r[1], r[2]))
        /\ \A k \in 1..Len(tokens) :
              /\ Len(tokens[k]) >= 2
              /\ \A i \in 1..Len(tokens[k]) : tokens[k][i] \in 97..122
              /\ tokens[k] \notin STOP_WORDS

\* tokenise has dropped a run that is a stop-word only once lower-cased, has
\* kept another run, and a single letter or a digit or a dot stood in the text
C4_Witness ==
    /\ pc = "returned"
    /\ calls = <<"tokenise">>
    /\ Len(tokens) = 1
    /\ \E r \in LetterRuns(text) \ KeptRuns(text) : SubSeq(text, r[1], r[2]) \notin STOP_WORDS
    /\ \E i \in 1..Len(text) : text[i] \in {49, 46}

\* C5: the ranked list of top_n_words (any N) and of tag_frequencies is
\* sorted by count, largest first, keys of equal count in the order in which
\* they are first seen in the input; truncated to N >= 0 it is the first N
\* entries of that ordering
C5_RankedByCountThenFirstSeen ==
    /\ (pc = "returned" /\ calls = <<"top_n_words">>) =>
          /\ IsRankedPrefix(word_counts, tokens)
          /\ args.top >= 0 => Len(word_counts) = Min(args.top, Cardinality(Distinct(tokens)))
    /\ (pc = "returned" /\ calls = <<"tag_frequencies">>) =>
          /\ IsRankedPrefix(tag_counts, ElementNames(soup))
          /\ Len(tag_counts) = Cardinality(Distinct(ElementNames(soup)))

\* top_n_words has cut a list in which the keys it kept tie with one it left out
C5_Witness ==
    /\ pc = "returned"
    /\ calls = <<"top_n_words">>
    /\ Len(word_counts) = 2
    /\ word_counts[1][2] = word_counts[2][2]
    /\ \E k \in Distinct(tokens) :
          /\ k \notin {word_counts[i][1] : i \in 1..Len(word_counts)}
          /\ Occurrences(tokens, k) = word_counts[2][2]

\* C6: for N >= 0, top_n_words returns min(N, number of distinct tokens)
\* entries with distinct keys: none for N = 0, every distinct token once N is
\* at least their number
C6_TopNLength ==
    (pc = "returned" /\ calls = <<"top_n_words">> /\ args.top >= 0) =>
        /\ Len(word_counts) = Min(args.top, Cardinality(Distinct(tokens)))
        /\ \A i, j \in 1..Len(word_counts) : word_counts[i][1] = word_counts[j][1] => i = j
        /\ args.top = 0 => word_counts = <<>>
        /\ args.top >= Cardinality(Distinct(tokens)) =>
              {word_counts[i][1] : i \in 1..Len(word_counts)} = Distinct(tokens)

\* top_n_words was asked for more entries than there are distinct tokens
C6_Witness ==
    /\ pc = "returned"
    /\ calls = <<"top_n_words">>
    /\ args.top > Cardinality(Distinct(tokens))
    /\ Len(word_counts) = Cardinality(Distinct(tokens))
    /\ Len(word_counts) >= 2

\* C7 as claimed: the counts of the ranked list add up to the length of the
\* input key sequence, for top_n_words (N >= 0) and for tag_frequencies
C7_SumEqualsLength ==
    /\ (pc = "returned" /\ calls = <<"top_n_words">> /\ args.top >= 0) =>
          SumCounts(word_counts) = Len(tokens)
    /\ (pc = "returned" /\ calls = <<"tag_frequencies">>) =>
          SumCounts(tag_counts) = Cardinality(Elements(soup))

\* C7 (amended): the counts of tag_frequencies add up to the number of
\* elements; the counts of top_n_words add up to the number of tokens whose
\* key is listed, which is the length of the token sequence when N is at
\* least the number of distinct tokens and less than it when N >= 0 is smaller
C7_SumEqualsLengthUntruncated ==
    /\ (pc = "returned" /\ calls = <<"top_n_words">>) =>
          LET listed == {word_counts[i][1] : i \in 1..Len(word_counts)} IN
          /\ SumCounts(word_counts) = Cardinality({i \in 1..Len(tokens) : tokens[i] \in listed})
          /\ args.top >= Cardinality(Distinct(tokens)) => SumCounts(word_counts) = Len(tokens)
          /\ (args.top >= 0 /\ args.top < Cardinality(Distinct(tokens))) =>
                SumCounts(word_counts) < Len(tokens)
    /\ (pc = "returned" /\ calls = <<"tag_frequencies">>) =>
          SumCounts(tag_counts) = Cardinality(Elements(soup))

\* top_n_words has ranked, untruncated, a token sequence with a repeated token
C7_Witness ==
    /\ pc = "returned"
    /\ calls = <<"top_n_words">>
    /\ args.top >= Cardinality(Distinct(tokens))
    /\ Cardinality(Distinct(tokens)) < Len(tokens)
    /\ SumCounts(word_counts) = Len(tokens)
    /\ Len(word_counts) >= 2

\* C8: a run whose --top is a negative integer never calls top_n_words and
\* prints no report
C8_NegativeTopRejected ==
    (argv.top # <<>> /\ int(argv.top[1]).ok /\ int(argv.top[1]).value < 0) =>
        /\ \A i \in 1..Len(calls) : calls[i] # "top_n_words"
        /\ stdout = NoReport

\* C9: a run ended by an invalid URL or by a parsing error exits with 2, a
\* run ended by a network or HTTP failure exits with 1, and only a run that
\* printed the report exits with 0
C9_ExitCodeClassifies ==
    pc = "exited" =>
        /\ error \in {"MissingSchema", "ParserRejectedMarkup", "ArgumentError"} => exit_code = 2
        /\ error \in {"ConnectionError", "Timeout", "HTTPError"} => exit_code = 1
        /\ exit_code = 0 => stdout # NoReport

\* C10: main calls fetch_html at most once; when the fetch fails the run is
\* over at once, with nothing called after fetch_html and nothing printed;
\* a report is printed only after a fetch that succeeded
C10_FetchOnceFailFast ==
    /\ Cardinality({i \in 1..Len(calls) : calls[i] = "fetch_html"}) <= 1
    /\ error \in FetchErrors \cup {"MissingSchema"} =>
          /\ pc = "exited"
          /\ exit_code # -1
          /\ calls[Len(calls)] = "fetch_html"
          /\ stdout = NoReport
          /\ soup = <<>> /\ tag_counts = <<>> /\ text = <<>> /\ tokens = <<>> /\ word_counts = <<>>
    /\ stdout # NoReport =>
          /\ \E i \in 1..Len(calls) : calls[i] = "fetch_html"
          /\ error = ""

\* a run whose fetch failed
C10_Witness ==
    /\ error \in FetchErrors
    /\ pc = "exited"
    /\ calls = <<"parse_args", "fetch_html">>

=============================================================================
